---------------------------- MODULE Spec2Model ----------------------------
(***************************************************************************)
(* png-message: the 4-byte chunk type code (src/src/chunk_type.rs) and     *)
(* the chunk container (src/src/chunk.rs): construction, serialization to  *)
(* the wire layout and parsing of a byte buffer.                           *)
(*                                                                         *)
(* A byte is a number in 0..255.  A u32 is the pair of its 16-bit halves,  *)
(* so that all 2^32 values are representable.  A text (&str) is a sequence *)
(* of Unicode code points; its bytes are its UTF-8 encoding.               *)
(***************************************************************************)
EXTENDS Integers, Sequences, FiniteSets, TLC

VARIABLES
    overflow_checks, \* build profile: TRUE = arithmetic overflow panics (debug)
    arg,             \* input of the last type-code constructor (text or bytes)
    ctype,           \* Result<ChunkType, &str> of the last type-code constructor
    flags,           \* results of the last round of ChunkType queries
    data_in,         \* payload handed to the last Chunk::new
    chunk,           \* the Chunk built by Chunk::new
    buf,             \* the byte buffer at hand
    origin,          \* how buf came about
    parsed           \* Result<Chunk, &str> of Chunk::try_from(buf), or a panic

vars == <<overflow_checks, arg, ctype, flags, data_in, chunk, buf, origin, parsed>>

(***************************** bounds **************************************)
MaxTextLen == 5
MaxDataLen == 2

(***************************** bytes and u32 *******************************)
\* bit i of the number n
Bit(n, i) == (n \div (2 ^ i)) % 2

\* bit w (a power of two) of a ^ b
XorBit(a, b, w) == (((a \div w) + (b \div w)) % 2) * w

\* a ^ b on bytes
Xor8(a, b) ==
    XorBit(a, b, 1) + XorBit(a, b, 2) + XorBit(a, b, 4) + XorBit(a, b, 8)
    + XorBit(a, b, 16) + XorBit(a, b, 32) + XorBit(a, b, 64) + XorBit(a, b, 128)

\* a ^ b on 16-bit numbers
Xor16(a, b) == Xor8(a % 256, b % 256) + 256 * Xor8(a \div 256, b \div 256)

\* a u32 from its high and low 16-bit halves
U32(hi, lo) == [hi |-> hi, lo |-> lo]

\* mutant of to_be_bytes: the bytes in little-endian order
to_le_bytes(x) == <<x.lo % 256, x.lo \div 256, x.hi % 256, x.hi \div 256>>

\* u32::to_be_bytes
to_be_bytes(x) == <<x.hi \div 256, x.hi % 256, x.lo \div 256, x.lo % 256>>

\* u32::from_be_bytes of a 4-byte array
from_be_bytes(b) == U32(b[1] * 256 + b[2], b[3] * 256 + b[4])

\* `n as u32` for a usize n (the model's numbers are below 2^31)
as_u32(n) == U32((n \div 65536) % 65536, n % 65536)

\* `x as usize`, for x below 2^31
as_usize(x) == x.hi * 65536 + x.lo

\* x > n for a u32 x and a usize n
U32Gt(x, n) ==
    \/ x.hi > n \div 65536
    \/ x.hi = n \div 65536 /\ x.lo > n % 65536

\* x ^ y, x >> 1, x >> 8 and !x on u32
Xor(x, y) == U32(Xor16(x.hi, y.hi), Xor16(x.lo, y.lo))
Shr1(x) == U32(x.hi \div 2, (x.lo \div 2) + (x.hi % 2) * 32768)
Shr8(x) == U32(x.hi \div 256, (x.lo \div 256) + (x.hi % 256) * 256)
Not(x) == U32(65535 - x.hi, 65535 - x.lo)

\* value[a..b] (Rust's half-open range on a slice), 0-based
Slice(value, a, b) == SubSeq(value, a + 1, b)

(***************************** CRC-32 (IEEE) *******************************)
\* the reflected IEEE polynomial 0xEDB88320
IEEE == U32(60856, 33568)

RECURSIVE TableEntry(_, _)
TableEntry(c, k) ==
    IF k = 0 THEN c
    ELSE TableEntry(IF c.lo % 2 = 1 THEN Xor(Shr1(c), IEEE) ELSE Shr1(c), k - 1)

\* crc32::make_table: the entries for the bytes lo..hi, in order
RECURSIVE make_table(_, _)
make_table(lo, hi) ==
    IF lo = hi THEN <<TableEntry(as_u32(lo), 8)>>
    ELSE make_table(lo, (lo + hi) \div 2) \o make_table((lo + hi) \div 2 + 1, hi)

\* IEEE_TABLE[n + 1] is the entry of byte n
IEEE_TABLE == make_table(0, 255)

\* one round of crc32::update's loop over the bytes
update_byte(value, byte) ==
    Xor(IEEE_TABLE[Xor8(value.lo % 256, byte) + 1], Shr8(value))

\* the u32 values
U32s == [hi : 0..65535, lo : 0..65535]

\* crc32::update's loop over the bytes, from bytes[i] on; the function
\* application makes TLC evaluate each round's value before the next round
RECURSIVE update(_, _, _)
update(value, bytes, i) ==
    IF i > Len(bytes) THEN value
    ELSE [v \in U32s |-> update(update_byte(v, bytes[i]), bytes, i + 1)][value]

\* crc32::checksum_ieee: the value is complemented going in and coming out
checksum_ieee(bytes) == Not(update(Not(U32(0, 0)), bytes, 1))

(***************************** ChunkType ***********************************)
Ok(v) == [tag |-> "Ok", val |-> v]
Err(e) == [tag |-> "Err", err |-> e]
Panic(m) == [tag |-> "Panic", msg |-> m]
None == [tag |-> "None"]

\* (b & 0b0010_0000) == 0
Bit5Clear(b) == Bit(b, 5) = 0

is_critical(bytes) == Bit5Clear(bytes[1])
is_public(bytes) == Bit5Clear(bytes[2])
is_reserved_bit_valid(bytes) == Bit5Clear(bytes[3])
is_safe_to_copy(bytes) == ~Bit5Clear(bytes[4])

\* mutant of is_valid_from: the gap between 'Z' and 'a' is one byte short
RECURSIVE is_valid_from_short_gap(_, _)
is_valid_from_short_gap(bytes, i) ==
    IF i > 4 THEN is_reserved_bit_valid(bytes)
    ELSE IF bytes[i] < 65 \/ bytes[i] > 122 THEN FALSE
    ELSE IF bytes[i] > 90 /\ bytes[i] < 96 THEN FALSE
    ELSE is_valid_from_short_gap(bytes, i + 1)

\* ChunkType::is_valid: the loop over the bytes, from bytes[i] on
RECURSIVE is_valid_from(_, _)
is_valid_from(bytes, i) ==
    IF i > 4 THEN is_reserved_bit_valid(bytes)
    ELSE IF bytes[i] < 65 \/ bytes[i] > 122 THEN FALSE
    ELSE IF bytes[i] > 90 /\ bytes[i] < 97 THEN FALSE
    ELSE is_valid_from(bytes, i + 1)

is_valid(bytes) == is_valid_from(bytes, 1)

\* impl TryFrom<[u8; 4]> for ChunkType
ChunkType_try_from(value) == Ok([bytes |-> value])

\* UTF-8 encoding of one code point below 0x10000
Utf8(cp) ==
    IF cp < 128 THEN <<cp>>
    ELSE IF cp < 2048 THEN <<192 + (cp \div 64), 128 + (cp % 64)>>
    ELSE <<224 + (cp \div 4096), 128 + ((cp \div 64) % 64), 128 + (cp % 64)>>

\* str::bytes / str::as_bytes
RECURSIVE str_bytes(_)
str_bytes(s) == IF s = <<>> THEN <<>> ELSE Utf8(Head(s)) \o str_bytes(Tail(s))

\* str::is_ascii
is_ascii(s) == \A i \in 1..Len(str_bytes(s)) : str_bytes(s)[i] < 128

\* u8::is_ascii_alphabetic
is_ascii_alphabetic(c) == (c >= 65 /\ c <= 90) \/ (c >= 97 /\ c <= 122)

InvalidLength == "Invalid string length"
InvalidCharacter == "Invalid string"

\* mutant of from_str: the length check counts characters, not bytes
from_str_chars(s) ==
    IF Len(s) # 4 THEN Err(InvalidLength)
    ELSE IF ~is_ascii(s) THEN Err(InvalidCharacter)
    ELSE IF \E i \in 1..4 : ~is_ascii_alphabetic(str_bytes(s)[i])
         THEN Err(InvalidCharacter)
    ELSE Ok([bytes |-> Slice(str_bytes(s), 0, 4)])

\* impl FromStr for ChunkType
from_str(s) ==
    IF Len(str_bytes(s)) # 4 THEN Err(InvalidLength)
    ELSE IF ~is_ascii(s) THEN Err(InvalidCharacter)
    ELSE IF \E i \in 1..4 : ~is_ascii_alphabetic(str_bytes(s)[i])
         THEN Err(InvalidCharacter)
    ELSE Ok([bytes |-> Slice(str_bytes(s), 0, 4)])

(***************************** Chunk ***************************************)
\* mutant of Chunk_new: the checksum covers the payload only
Chunk_new_crc_of_data(chunk_type, data) ==
    [length |-> Len(data),
     chunk_type |-> chunk_type,
     crc |-> checksum_ieee(data),
     data |-> data]

\* mutant of Chunk_new: the length is that of the checksummed bytes
Chunk_new_length_of_crc_data(chunk_type, data) ==
    LET crc_data == chunk_type.bytes \o data
    IN  [length |-> Len(crc_data),
         chunk_type |-> chunk_type,
         crc |-> checksum_ieee(crc_data),
         data |-> data]

\* Chunk::new
Chunk_new(chunk_type, data) ==
    LET crc_data == chunk_type.bytes \o data
    IN  [length |-> Len(data),
         chunk_type |-> chunk_type,
         crc |-> checksum_ieee(crc_data),
         data |-> data]

\* Chunk::length
length(c) == as_u32(c.length)

\* mutant of as_bytes: the length field holds the length of the whole frame
as_bytes_frame_length(c) ==
    LET length_bytes == to_be_bytes(as_u32(c.length + 12))
        crc_bytes == to_be_bytes(c.crc)
    IN  length_bytes \o c.chunk_type.bytes \o c.data \o crc_bytes

\* Chunk::as_bytes
as_bytes(c) ==
    LET length_bytes == to_be_bytes(as_u32(c.length))
        crc_bytes == to_be_bytes(c.crc)
    IN  length_bytes \o c.chunk_type.bytes \o c.data \o crc_bytes

TooShort == "Invalid length"
LengthMismatch == "Invalid input"
ChecksumMismatch == "Invalid CRC"

\* mutant of try_from_body: the stored checksum is not compared
try_from_body_unchecked(value, len) ==
    LET chunk_type == ChunkType_try_from(Slice(value, 4, 8))
        data_len == Len(value) - 12
        data == Slice(Slice(value, 8, Len(value)), 0, data_len)
        crc == from_be_bytes(Slice(value, 8 + data_len, Len(value)))
    IN  Ok([length |-> len, chunk_type |-> chunk_type.val, data |-> data, crc |-> crc])

\* mutant of try_from_body: the payload keeps the 4 checksum bytes
try_from_body_data_with_crc(value, len) ==
    LET chunk_type == ChunkType_try_from(Slice(value, 4, 8))
        data_len == Len(value) - 12
        data_and_crc == Slice(value, 8, Len(value))
        crc == from_be_bytes(Slice(value, 8 + data_len, Len(value)))
        checksum == checksum_ieee(Slice(value, 4, 8 + data_len))
    IN  IF crc # checksum THEN Err(ChecksumMismatch)
        ELSE Ok([length |-> len,
                 chunk_type |-> chunk_type.val,
                 data |-> data_and_crc,
                 crc |-> crc])

\* the tail of Chunk::try_from, once the length check has passed
try_from_body(value, len) ==
    LET chunk_type == ChunkType_try_from(Slice(value, 4, 8))
        data_len == Len(value) - 12
        data_and_crc == Slice(value, 8, Len(value))
        data == Slice(data_and_crc, 0, data_len)
        crc == from_be_bytes(Slice(value, 8 + data_len, Len(value)))
        checksum == checksum_ieee(Slice(value, 4, 8 + data_len))
    IN  IF chunk_type.tag # "Ok" THEN chunk_type
        ELSE IF Len(Slice(value, 8 + data_len, Len(value))) # 4
             THEN Panic("source slice length does not match destination slice length")
        ELSE IF crc # checksum THEN Err(ChecksumMismatch)
        ELSE Ok([length |-> len,
                 chunk_type |-> chunk_type.val,
                 data |-> data,
                 crc |-> crc])

\* impl TryFrom<&[u8]> for Chunk; checks = the build's overflow checks
Chunk_try_from(value, checks) ==
    IF Len(value) < 12 THEN Err(TooShort)
    ELSE LET len == from_be_bytes(Slice(value, 0, 4))
         IN  IF U32Gt(len, Len(value))
             THEN \* value.len() - length underflows usize
                  IF checks THEN Panic("attempt to subtract with overflow")
                  ELSE Err(LengthMismatch) \* the wrapped difference is above 2^63
             ELSE IF Len(value) - as_usize(len) # 12 THEN Err(LengthMismatch)
             ELSE try_from_body(value, as_usize(len))


(***************************** inputs **************************************)
RECURSIVE SeqsUpTo(_, _)
SeqsUpTo(S, n) ==
    IF n = 0 THEN {<<>>}
    ELSE LET shorter == SeqsUpTo(S, n - 1)
         IN  shorter \cup {Append(q, x) : q \in {r \in shorter : Len(r) = n - 1}, x \in S}

\* "RuSt", "Rust", "Ru1t", "Rus" (the texts of the tests)
RuSt == <<82, 117, 83, 116>>
ExampleTexts == {RuSt, <<82, 117, 115, 116>>, <<82, 117, 49, 116>>, <<82, 117, 115>>}

\* '@' 'A' 'Z' '[' 'a' 'z', U+00E9 (2 bytes of UTF-8), U+20AC (3 bytes)
Chars == {64, 65, 90, 91, 97, 122, 233, 8364}
Texts == SeqsUpTo(Chars, MaxTextLen) \cup ExampleTexts

TypeByteVals == {0, 64, 65, 90, 91, 96, 97, 122, 123, 255}
TypeBytes == [1..4 -> TypeByteVals] \cup {RuSt}

\* the type codes the chunk scenarios use
ChunkTexts == {RuSt, <<82, 117, 115, 116>>, <<82, 117, 49, 116>>}
ChunkTypeBytes == {RuSt, <<0, 0, 0, 0>>, <<255, 255, 255, 255>>, <<137, 80, 78, 71>>}

\* "This is where your secret message will be!"
TestingMessage ==
    <<84, 104, 105, 115, 32, 105, 115, 32, 119, 104, 101, 114, 101, 32, 121,
      111, 117, 114, 32, 115, 101, 99, 114, 101, 116, 32, 109, 101, 115, 115,
      97, 103, 101, 32, 119, 105, 108, 108, 32, 98, 101, 33>>

DataByteVals == {0, 1, 255}
Payloads == SeqsUpTo(DataByteVals, MaxDataLen)

\* the payloads tried with a type code: the short ones, and for "RuSt" the
\* message of the tests (testing_chunk)
PayloadsFor(t) == IF t.bytes = RuSt THEN Payloads \cup {TestingMessage} ELSE Payloads

\* values written over the 4-byte length field of a frame
LengthFields ==
    {<<0, 0, 0, 0>>, <<0, 0, 0, 1>>, <<0, 0, 0, 2>>, <<0, 0, 0, 3>>,
     <<0, 0, 0, 42>>, <<0, 0, 0, 43>>, <<0, 0, 1, 0>>, <<1, 0, 0, 0>>,
     <<127, 255, 255, 255>>, <<128, 0, 0, 0>>, <<255, 255, 255, 255>>}

\* values written over the 4-byte checksum field: 2882656333 (the test's
\* corrupted checksum), 2882656334, 0 and 2^32 - 1
CrcFields ==
    {<<171, 209, 216, 77>>, <<171, 209, 216, 78>>, <<0, 0, 0, 0>>,
     <<255, 255, 255, 255>>}

(***************************** the state machine ***************************)
Some(v) == [tag |-> "Some", val |-> v]

Init ==
    /\ overflow_checks \in BOOLEAN
    /\ arg = [kind |-> "none"]
    /\ ctype = None
    /\ flags = None
    /\ data_in = <<>>
    /\ chunk = None
    /\ buf = <<>>
    /\ origin = [op |-> "none"]
    /\ parsed = None

\* ChunkType::from_str(s): a run starts by building one type code
FromStr(s) ==
    /\ arg.kind = "none"
    /\ arg' = [kind |-> "text", s |-> s]
    /\ ctype' = from_str(s)
    /\ UNCHANGED <<overflow_checks, flags, data_in, chunk, buf, origin, parsed>>

\* ChunkType::try_from(b)
TryFromBytes(b) ==
    /\ arg.kind = "none"
    /\ arg' = [kind |-> "bytes", b |-> b]
    /\ ctype' = ChunkType_try_from(b)
    /\ UNCHANGED <<overflow_checks, flags, data_in, chunk, buf, origin, parsed>>

\* the queries of a type code
Query ==
    /\ ctype.tag = "Ok"
    /\ flags = None
    /\ flags' = [is_valid |-> is_valid(ctype.val.bytes),
                 is_critical |-> is_critical(ctype.val.bytes),
                 is_public |-> is_public(ctype.val.bytes),
                 is_reserved_bit_valid |-> is_reserved_bit_valid(ctype.val.bytes),
                 is_safe_to_copy |-> is_safe_to_copy(ctype.val.bytes)]
    /\ UNCHANGED <<overflow_checks, arg, ctype, data_in, chunk, buf, origin, parsed>>

\* Chunk::new(chunk_type, d): the type code is moved into the chunk
New(d) ==
    /\ ctype.tag = "Ok"
    /\ chunk' = Some(Chunk_new(ctype.val, d))
    /\ data_in' = d
    /\ ctype' = None
    /\ UNCHANGED <<overflow_checks, arg, flags, buf, origin, parsed>>

\* chunk.as_bytes()
AsBytes ==
    /\ chunk.tag = "Some"
    /\ origin.op = "none"
    /\ buf' = as_bytes(chunk.val)
    /\ origin' = [op |-> "as_bytes"]
    /\ parsed' = None
    /\ UNCHANGED <<overflow_checks, arg, ctype, flags, data_in, chunk>>

Edited(b, how) ==
    /\ origin.op = "as_bytes"
    /\ b # buf
    /\ buf' = b
    /\ origin' = how
    /\ parsed' = None
    /\ UNCHANGED <<overflow_checks, arg, ctype, flags, data_in, chunk>>

\* one bit of the serialized frame is flipped (pos is 0-based)
FlipBit(pos, bit) ==
    LET old == buf[pos + 1]
        new == IF Bit(old, bit) = 1 THEN old - 2 ^ bit ELSE old + 2 ^ bit
    IN  Edited([buf EXCEPT ![pos + 1] = new], [op |-> "flip", pos |-> pos, bit |-> bit])

\* the frame is cut to its first n bytes
Truncate(n) == Edited(SubSeq(buf, 1, n), [op |-> "truncate"])

\* a byte is appended to the frame
Extend(b) == Edited(Append(buf, b), [op |-> "extend"])

\* the length field is overwritten
SetLength(l) == Edited(l \o SubSeq(buf, 5, Len(buf)), [op |-> "set_length"])

\* the checksum field is overwritten
SetCrc(c) == Edited(SubSeq(buf, 1, Len(buf) - 4) \o c, [op |-> "set_crc"])

\* Chunk::try_from(&buf[..])
Parse ==
    /\ parsed = None
    /\ parsed' = Chunk_try_from(buf, overflow_checks)
    /\ UNCHANGED <<overflow_checks, arg, ctype, flags, data_in, chunk, buf, origin>>

Next ==
    \/ arg.kind = "none" /\ \E s \in ChunkTexts : FromStr(s)
    \/ arg.kind = "none" /\ \E b \in ChunkTypeBytes : TryFromBytes(b)
    \/ ctype.tag = "Ok" /\ \E d \in PayloadsFor(ctype.val) : New(d)
    \/ AsBytes
    \/ \E pos \in 0..(Len(buf) - 1), bit \in 0..7 : FlipBit(pos, bit)
    \/ \E n \in 0..(Len(buf) - 1) : Truncate(n)
    \/ \E b \in DataByteVals : Extend(b)
    \/ \E l \in LengthFields : SetLength(l)
    \/ \E c \in CrcFields : SetCrc(c)
    \/ Parse

Spec == Init /\ [][Next]_vars

\* the type-code operations alone, over a wider range of inputs
NextType ==
    \/ arg.kind = "none" /\ \E s \in Texts : FromStr(s)
    \/ arg.kind = "none" /\ \E b \in TypeBytes : TryFromBytes(b)
    \/ Query

SpecType == Init /\ [][NextType]_vars


(***************************** properties **********************************)
\* the 4 bytes the run's type code was built from
TypeGiven == IF arg.kind = "text" THEN str_bytes(arg.s) ELSE arg.b

\* b is an ASCII letter
Letter(b) == b \in (65..90) \cup (97..122)

\* the 4 bytes at field[1..4] are the big-endian form of the number n
BigEndianOf(field, n) ==
    /\ field[1] = n \div 16777216
    /\ field[2] = (n \div 65536) % 256
    /\ field[3] = (n \div 256) % 256
    /\ field[4] = n % 256

\* the 4 bytes at field[1..4] are the big-endian form of the u32 x
BigEndianOfU32(field, x) ==
    /\ field[1] * 256 + field[2] = x.hi
    /\ field[3] * 256 + field[4] = x.lo

\* CRC-32 (IEEE) bit by bit: each byte is xored into the low byte of the
\* register, which is then shifted right 8 times, the polynomial being xored
\* in whenever a one is shifted out
RECURSIVE RefUpdate(_, _, _)
RefUpdate(value, bytes, i) ==
    IF i > Len(bytes) THEN value
    ELSE [v \in U32s |->
            RefUpdate(TableEntry(Xor(v, as_u32(bytes[i])), 8), bytes, i + 1)][value]

RefCrc32(bytes) == Not(RefUpdate(U32(65535, 65535), bytes, 1))

\* the chunk of the tests: "RuSt" built from text, with the tests' message
IsTestingChunk ==
    /\ chunk.tag = "Some"
    /\ arg.kind = "text" /\ arg.s = RuSt
    /\ data_in = TestingMessage

\* C1: parsing the bytes as_bytes() gives for Chunk::new(t, d) succeeds and
\* yields a chunk with the length, type bytes, payload and checksum of
\* Chunk::new(t, d), for every type code t and payload d.
RoundTrip ==
    (origin.op = "as_bytes" /\ parsed # None) =>
        /\ parsed.tag = "Ok"
        /\ length(parsed.val) = length(chunk.val)
        /\ parsed.val.chunk_type.bytes = TypeGiven
        /\ parsed.val.data = data_in
        /\ parsed.val.crc = chunk.val.crc

RoundTripWitness ==
    /\ origin.op = "as_bytes"
    /\ parsed.tag = "Ok"
    /\ arg.kind = "bytes"
    /\ Len(data_in) = MaxDataLen

\* C2: every chunk, built by Chunk::new or returned by a successful parse,
\* has crc() equal to the CRC-32 (IEEE) of its 4 type bytes followed by its
\* payload; for the chunk of the tests that is 2882656334 (0xABD1D84E).
\* No action changes a chunk once it is built, so the chunk of Chunk::new is
\* compared in the state Chunk::new leaves (no frame serialized yet).
ChecksumInvariant ==
    /\ (chunk.tag = "Some" /\ origin.op = "none") =>
          chunk.val.crc = RefCrc32(chunk.val.chunk_type.bytes \o chunk.val.data)
    /\ parsed.tag = "Ok" =>
          parsed.val.crc = RefCrc32(parsed.val.chunk_type.bytes \o parsed.val.data)
    /\ IsTestingChunk => chunk.val.crc = U32(43985, 55374)

ChecksumWitness ==
    /\ IsTestingChunk
    /\ parsed.tag = "Ok"

\* C3: parsing a buffer of at least 12 bytes whose declared length is not
\* the buffer's length less 12 fails with LengthMismatch, whether the
\* declared length is too small or larger than the buffer itself.
LengthMismatchRejected ==
    (/\ parsed # None
     /\ Len(buf) >= 12
     /\ ~BigEndianOf(buf, Len(buf) - 12)) => parsed = Err(LengthMismatch)

\* C4: on every buffer, parsing returns a chunk or one of the errors
\* TooShort, LengthMismatch, ChecksumMismatch; it never panics.
NoAbort ==
    /\ parsed.tag \in {"None", "Ok", "Err"}
    /\ parsed.tag = "Err" => parsed.err \in {TooShort, LengthMismatch, ChecksumMismatch}

\* C5: as_bytes() gives 12 + payload length bytes: the length as 4 bytes big
\* endian, the 4 type bytes, the payload, the checksum as 4 bytes big endian.
WireLayout ==
    origin.op = "as_bytes" =>
        LET n == Len(data_in)
        IN  /\ Len(buf) = 12 + n
            /\ BigEndianOf(SubSeq(buf, 1, 4), n)
            /\ SubSeq(buf, 5, 8) = TypeGiven
            /\ SubSeq(buf, 9, 8 + n) = data_in
            /\ BigEndianOfU32(SubSeq(buf, 9 + n, 12 + n), chunk.val.crc)

WireLayoutWitness ==
    /\ origin.op = "as_bytes"
    /\ IsTestingChunk
    /\ Len(buf) = 54

\* C6: flipping one bit in the payload or the checksum of a serialized frame
\* (length and type fields untouched) makes parsing fail with
\* ChecksumMismatch; so does overwriting the checksum with another value
\* (2882656333 in the tests).
TamperDetection ==
    /\ (origin.op = "flip" /\ origin.pos >= 8 /\ parsed # None) =>
          parsed = Err(ChecksumMismatch)
    /\ (origin.op = "set_crc" /\ parsed # None) => parsed = Err(ChecksumMismatch)

TamperWitness ==
    /\ origin.op = "flip"
    /\ origin.pos >= 8
    /\ origin.pos < 8 + Len(data_in)
    /\ parsed = Err(ChecksumMismatch)

\* C7 as claimed: length() is the byte count of the payload given to
\* Chunk::new, and of data() for a parsed chunk; for the chunk of the tests
\* it is 44.
LengthDerivationAsClaimed ==
    /\ chunk.tag = "Some" => as_usize(length(chunk.val)) = Len(data_in)
    /\ parsed.tag = "Ok" => as_usize(length(parsed.val)) = Len(parsed.val.data)
    /\ IsTestingChunk => as_usize(length(chunk.val)) = 44

\* C7 amended: as above, and for the chunk of the tests length() is 42.
LengthDerivation ==
    /\ chunk.tag = "Some" => as_usize(length(chunk.val)) = Len(data_in)
    /\ parsed.tag = "Ok" => as_usize(length(parsed.val)) = Len(parsed.val.data)
    /\ IsTestingChunk => as_usize(length(chunk.val)) = 42

LengthWitness ==
    /\ IsTestingChunk
    /\ origin.op = "none"

\* C8: from_str(s) fails with InvalidLength when s is not 4 bytes long
\* (checked first), else with InvalidCharacter when a byte is not an ASCII
\* letter, else succeeds with exactly the 4 bytes of s.
FromTextResult ==
    (arg.kind = "text" /\ chunk = None) =>
        LET bytes == str_bytes(arg.s)
        IN  IF Len(bytes) # 4 THEN ctype = Err(InvalidLength)
            ELSE IF \E i \in 1..4 : ~Letter(bytes[i]) THEN ctype = Err(InvalidCharacter)
            ELSE ctype = Ok([bytes |-> bytes])

\* a text of 4 characters, not all ASCII: its length in bytes is not 4
FromTextWitness ==
    /\ arg.kind = "text"
    /\ Len(arg.s) = 4
    /\ \E i \in 1..4 : arg.s[i] >= 128
    /\ ctype = Err(InvalidLength)

CanonicalFrames ==
    /\ parsed.tag = "Ok" => as_bytes(parsed.val) = buf
    /\ parsed.tag = "Err" => parsed.err \in {TooShort, LengthMismatch, ChecksumMismatch}
    /\ (origin.op = "as_bytes" /\ parsed # None /\ ~is_valid(TypeGiven)) =>
          parsed.tag = "Ok"

CanonicalWitness ==
    /\ parsed.tag = "Ok"
    /\ ~is_valid(parsed.val.chunk_type.bytes)
    /\ Len(parsed.val.data) > 0

=============================================================================
